---- MODULE Spec2Model ----
(***************************************************************************)
(* Connection engine of the Tarantool client: one Connection with its      *)
(* reader and writer goroutines, the request registry, the outbound        *)
(* packet queue, Close() and request submission.                           *)
(*                                                                         *)
(* Sockets are numbered in the order they are established (1, 2, ...);     *)
(* 0 stands for nil.  conn.connection, conn.r and conn.w are always set    *)
(* and cleared together under the mutex, so one variable stands for the    *)
(* three.  A future is named by the ordinal of the Submit that made it.    *)
(* Only what the program can still observe is kept: the buffer and the     *)
(* wire of the stored socket (those of a closed socket are gone with it),  *)
(* and a local r or w only between its assignment and its last use.        *)
(***************************************************************************)
EXTENDS Integers, Sequences, FiniteSets, TLC

\* ---- bounds of the model ----
\* number of Submit calls explored
MaxSubmits == 2
\* number of sockets the server accepts
MaxSockets == 2
\* number of network failures on an open socket
MaxNetErrors == 1
\* capacity of conn.packets, scaled down from the 64 of Connect
PacketsCap == 1
\* modulus of the request-id counter, scaled down from 2^32
IdMod == 4
\* number of dial() calls explored step by step
MaxDials == 3
\* largest response code the server sends
MaxCode == 1
\* number of addresses of the pool
MaxInstances == 2
\* number of selections of the pool explored
MaxSelects == 3

Futs == 1..MaxSubmits
Insts == 1..MaxInstances
Modes == {"ANY", "RW", "RO", "PreferRW", "PreferRO"}
Socks == 1..MaxSockets
Ids == 0..(IdMod - 1)
Procs == {"reader", "writer"}

\* ---- error values: <<kind, socket the error was detected on>> ----
NoErr == <<"none", 0>>
NetErr(s) == <<"net", s>>
ErrClientClosed == <<"client closed connection", 0>>
ErrClosed == <<"closed", 0>>

VARIABLES
    connection,     \* conn.connection / conn.r / conn.w : socket or 0 (nil)
    dialed,         \* number of sockets established so far
    opened,         \* the sockets of this connection that are open
    mutex,          \* holder of conn.mutex: "free", "reader", "writer"
    requestId,      \* conn.requestId
    requests,       \* conn.requests : id -> future (0 = no entry)
    packets,        \* conn.packets : queue of frames (frame of future f)
    closed,         \* conn.closed
    controlClosed,  \* conn.control has been closed
    reconnect,      \* opts.Reconnect (0 or positive)
    pc,             \* position of the reader and the writer goroutine
    loc,            \* local r of the reader, local w of the writer
    rresp,          \* request id of the response the reader decoded
    wpkt,           \* packet held by the writer (0 = none)
    buf,            \* stored socket: frames in conn.w, not flushed
    wire,           \* stored socket: frames flushed to the server
    answered,       \* stored socket: frames the server has answered
    netErrs,        \* network failures on an open socket so far
    cpc,            \* position of the caller of Close()
    closeCalls,     \* number of Close() calls that returned
    stage,          \* per caller: "none", "reg", "enq", "ret" of Submit,
                    \* "timedout" when its Get returned Timeout
    futId,          \* per future: request id
    futState,       \* per future: "pending", "ok", "err"
    futErr,         \* per future: fut.err
    futDone,        \* per future: number of times fut.c was closed
    regNoSocket,    \* pending futures registered while no socket was
                    \* stored after a disconnect
    user,           \* opts.User ("" = guest session)
    dpc,            \* position inside dial(): "idle" when not in dial
    dsock,          \* local connection of dial: "none", "open", "closed"
    greetingAuth,   \* conn.Greeting.auth: "" before the first greeting,
                    \* then 44 bytes: "salt" or "junk" (not base64)
    authSent,       \* the AUTH request went out on the dialed socket
    authCode,       \* code of the AUTH response read (-1 = none)
    dialErr,        \* error returned by the last dial()
    dials,          \* number of dial() calls so far
    rcode,          \* response code in the header the reader decoded
    futCode,        \* per future: fut.resp.Code (-1 = no response)
    poolStatus,     \* pool, per instance: connected and healthy
    poolRole,       \* pool, per instance: role bit "unknown", "rw", "ro"
    cursor,         \* pool, per mode: round-robin cursor
    picks,          \* pool: <<mode, instance, error>> of the selections
                    \* made since the instances last changed (instance 0
                    \* with an error, error "" with an instance)
    serverUp,       \* cluster, per instance: the server is running
    serverRo,       \* cluster, per instance: box.info.ro of the server
    poolClosed,     \* pool: Close() has been called
    changes,        \* cluster: servers stopped, started or switched so far
    instDialed,     \* pool, per instance: times its connection connected
    lastOp,         \* pool: <<operation, mode argument>> of the last call
                    \* ("" = called without a mode)
    sent,           \* pool: instances the last call submitted its request to
    opErr,          \* pool: error the last call returned ("" = none)
    addrs,          \* pool Connect: per address, whether it can connect
    checkTimeout,   \* pool Connect: poolOpts.checkTimeout
    startPc,        \* pool Connect: "idle", "call", "ret"
    startPool,      \* pool Connect: a non-nil pool was returned
    startErr        \* pool Connect: error returned ("" = nil)

vars == <<connection, dialed, opened, mutex, requestId, requests, packets,
          closed, controlClosed, reconnect, pc, loc, rresp, wpkt, buf, wire,
          answered, netErrs, cpc, closeCalls, stage, futId, futState, futErr,
          futDone, regNoSocket, user, dpc, dsock, greetingAuth, authSent,
          authCode, dialErr, dials, rcode, futCode, poolStatus, poolRole,
          cursor, picks, serverUp, serverRo, poolClosed, changes,
          instDialed, lastOp, sent, opErr, addrs, checkTimeout, startPc,
          startPool, startErr>>

connVars == <<connection, dialed, opened>>
dialVars == <<dpc, dsock, greetingAuth, authSent, authCode, dialErr, dials>>
codeVars == <<rcode, futCode>>
poolVars == <<poolStatus, poolRole, cursor, picks>>
clusterVars == <<serverUp, serverRo, poolClosed, changes, instDialed>>
routeVars == <<lastOp, sent, opErr>>
startVars == <<addrs, checkTimeout, startPc, startPool, startErr>>
\* the servers behind the pool, the last call routed through the pool and
\* the Connect call of the pool
aboveVars == <<clusterVars, routeVars, startVars>>
\* what the steps of the engine leave alone: the options, the inside of a
\* dial() call, the response code, which only the steps of SpecCode
\* follow through the reader, and the pool above the connections
envVars == <<reconnect, user, dialVars, codeVars, poolVars, aboveVars>>
futVars == <<futState, futErr, futDone, regNoSocket>>
submitVars == <<stage, futId>>
closeVars == <<closed, controlClosed, cpc, closeCalls>>
sockVars == <<buf, wire, answered>>

EmptyRegistry == [i \in Ids |-> 0]
InRegistry(reqs) == {reqs[i] : i \in Ids} \ {0}
Range(s) == {s[i] : i \in 1..Len(s)}

\* no dial() call is under way
DialIdle ==
    /\ dpc = "idle"
    /\ dsock = "none"
    /\ greetingAuth = ""
    /\ authSent = FALSE
    /\ authCode = -1
    /\ dialErr = "none"
    /\ dials = 0

\* the Connection as Connect builds it (part_000:44-54), both loops at
\* their first statement
ConnInit ==
    /\ connection = 0
    /\ dialed = 0
    /\ opened = {}
    /\ mutex = "free"
    /\ requestId = 0
    /\ requests = EmptyRegistry
    /\ packets = <<>>
    /\ closed = FALSE
    /\ controlClosed = FALSE
    /\ reconnect \in {0, 1}
    /\ pc = [p \in Procs |-> IF p = "reader" THEN "r_top" ELSE "w_top"]
    /\ loc = [p \in Procs |-> 0]
    /\ rresp = 0
    /\ wpkt = 0
    /\ buf = <<>>
    /\ wire = <<>>
    /\ answered = {}
    /\ netErrs = 0
    /\ cpc = "idle"
    /\ closeCalls = 0
    /\ stage = [f \in Futs |-> "none"]
    /\ futId = [f \in Futs |-> 0]
    /\ futState = [f \in Futs |-> "pending"]
    /\ futErr = [f \in Futs |-> NoErr]
    /\ futDone = [f \in Futs |-> 0]
    /\ regNoSocket = {}
    /\ rcode = 0
    /\ futCode = [f \in Futs |-> -1]

\* no cluster is followed, no call went through a pool, no pool Connect
\* is under way
AboveIdle ==
    /\ serverUp = [i \in Insts |-> FALSE]
    /\ serverRo = [i \in Insts |-> FALSE]
    /\ poolClosed = FALSE
    /\ changes = 0
    /\ instDialed = [i \in Insts |-> 0]
    /\ lastOp = <<"", "">>
    /\ sent = {}
    /\ opErr = ""
    /\ addrs = <<>>
    /\ checkTimeout = 1
    /\ startPc = "idle"
    /\ startPool = FALSE
    /\ startErr = ""

\* a single connection: no pool has been built over it
PoolIdle ==
    /\ poolStatus = [i \in Insts |-> FALSE]
    /\ poolRole = [i \in Insts |-> "unknown"]
    /\ cursor = [m \in Modes |-> 0]
    /\ picks = <<>>
    /\ AboveIdle

\* DialOk and DialFail stand for every outcome of dial() whoever the user
\* is, so the engine is explored for the guest session only; the steps
\* inside dial() are those of SpecDial
Init ==
    /\ ConnInit
    /\ user = ""
    /\ DialIdle
    /\ PoolIdle

\* a panic ends the program: no goroutine takes another step
Running == cpc # "panic"

\* ---------------------------------------------------------------------
\* closeConnection (part_000:184-200)

\* the futures the range loop of closeConnection visits
failTargets(reqs) == InRegistry(reqs)

\* delete(conn.requests, rid) for every rid
drainedKeepsEntries(reqs) == reqs
drained(reqs) == EmptyRegistry

\* connection.Close() on socket s: s is no longer among the open sockets
\* (81, 89, 190)
closeSocketLeaks(o, s) == o
closeSocket(o, s) == o \ {s}

\* lock; if conn.connection == nil return; close the socket; clear
\* connection, r, w; fail and delete every entry; unlock.  Every other
\* access to the registry takes the mutex, so the body is one step.
closeConnection(neterr) ==
    /\ mutex = "free"
    /\ IF connection = 0
         THEN UNCHANGED <<connection, opened, requests, futVars, sockVars>>
         ELSE /\ opened' = closeSocket(opened, connection)
              /\ connection' = 0
              /\ buf' = <<>>
              /\ wire' = <<>>
              /\ answered' = {}
              /\ futState' = [f \in Futs |->
                    IF f \in failTargets(requests) THEN "err" ELSE futState[f]]
              /\ futErr' = [f \in Futs |->
                    IF f \in failTargets(requests) THEN neterr ELSE futErr[f]]
              /\ futDone' = [f \in Futs |->
                    IF f \in failTargets(requests) THEN futDone[f] + 1
                                                   ELSE futDone[f]]
              /\ regNoSocket' = regNoSocket \ failTargets(requests)
              /\ requests' = drained(requests)
    /\ UNCHANGED <<dialed, mutex>>

\* an I/O call of p on its local socket fails: always when that socket was
\* closed by closeConnection, and on an open socket when the network breaks
ioError(p) ==
    /\ loc[p] = connection => netErrs < MaxNetErrors
    /\ netErrs' = IF loc[p] = connection THEN netErrs + 1 ELSE netErrs

\* bufio.Writer hands its buffer to the socket: the buffered frames b
\* follow the frames w that already went out (Flush, part_000:210, and
\* the flush inside Write, 269)
flushedNewestFirst(w, b) == b \o w
flushed(w, b) == w \o b

\* ---------------------------------------------------------------------
\* createConnection (part_000:158-175) and dial (69-99)

\* where a goroutine goes on when createConnection returned a socket
afterCreate(p) == IF p = "reader" THEN "r_read" ELSE "w_write"

\* if conn.closed { return } at the head of the loop (162), on entry and
\* after a sleep
closedAtEntryIgnored(c) == FALSE
closedAtEntry(c) == c
closedAfterSleepIgnored(c) == FALSE
closedAfterSleep(c) == c

\* conn.mutex.Lock() and the first test of the loop: return the stored
\* socket, return nil when closed, or start to dial with the mutex held
CreateLock(p) ==
    /\ Running
    /\ pc[p] = "cc_lock"
    /\ mutex = "free"
    /\ IF connection # 0
         THEN /\ loc' = [loc EXCEPT ![p] = connection]
              /\ pc' = [pc EXCEPT ![p] = afterCreate(p)]
              /\ UNCHANGED mutex
         ELSE IF closedAtEntry(closed)
           THEN /\ pc' = [pc EXCEPT ![p] = "done"]
                /\ UNCHANGED <<loc, mutex>>
           ELSE /\ mutex' = p
                /\ pc' = [pc EXCEPT ![p] = "cc_dial"]
                /\ UNCHANGED loc
    /\ UNCHANGED <<connVars, requestId, requests, packets, envVars,
                   rresp, wpkt, sockVars, netErrs, closeVars, submitVars,
                   futVars>>

\* conn.dial() succeeds: greeting read, auth passed, socket stored; break,
\* return conn.r, conn.w and unlock
DialOk(p) ==
    /\ Running
    /\ pc[p] = "cc_dial"
    /\ dialed < MaxSockets
    /\ dialed' = dialed + 1
    /\ connection' = dialed + 1
    /\ opened' = opened \cup {dialed + 1}
    /\ loc' = [loc EXCEPT ![p] = dialed + 1]
    /\ mutex' = "free"
    /\ pc' = [pc EXCEPT ![p] = afterCreate(p)]
    /\ UNCHANGED <<requestId, requests, packets, envVars, rresp, wpkt,
                   sockVars, netErrs, closeVars, submitVars, futVars>>

\* conn.dial() fails (net.Dial, greeting or auth): sleep with the mutex
\* held when opts.Reconnect > 0, otherwise return nil and unlock
DialFail(p) ==
    /\ Running
    /\ pc[p] = "cc_dial"
    /\ IF reconnect > 0
         THEN /\ pc' = [pc EXCEPT ![p] = "cc_sleep"]
              /\ UNCHANGED mutex
         ELSE /\ mutex' = "free"
              /\ pc' = [pc EXCEPT ![p] = "done"]
    /\ UNCHANGED <<connVars, requestId, requests, packets, envVars, loc,
                   rresp, wpkt, sockVars, netErrs, closeVars, submitVars,
                   futVars>>

\* time.Sleep(conn.opts.Reconnect) is over; the loop head, mutex held and
\* no socket stored: return nil and unlock when closed, else dial again
ReconnectSleep(p) ==
    /\ Running
    /\ pc[p] = "cc_sleep"
    /\ IF closedAfterSleep(closed)
         THEN /\ mutex' = "free"
              /\ pc' = [pc EXCEPT ![p] = "done"]
         ELSE /\ pc' = [pc EXCEPT ![p] = "cc_dial"]
              /\ UNCHANGED mutex
    /\ UNCHANGED <<connVars, requestId, requests, packets, envVars, loc,
                   rresp, wpkt, sockVars, netErrs, closeVars, submitVars,
                   futVars>>

\* ---------------------------------------------------------------------
\* reader (part_000:235-266)

\* if r = conn.r; r == nil { createConnection } (238)
ReaderTop ==
    /\ Running
    /\ pc["reader"] = "r_top"
    /\ IF connection = 0
         THEN /\ pc' = [pc EXCEPT !["reader"] = "cc_lock"]
              /\ UNCHANGED loc
         ELSE /\ loc' = [loc EXCEPT !["reader"] = connection]
              /\ pc' = [pc EXCEPT !["reader"] = "r_read"]
    /\ UNCHANGED <<connVars, mutex, requestId, requests, packets, envVars,
                   rresp, wpkt, sockVars, netErrs, closeVars, submitVars,
                   futVars>>

\* read(r) returns the response frame the server sent for a frame it
\* received on this socket; decodeHeader gives its request id (243-249)
ReaderRead(f) ==
    /\ Running
    /\ pc["reader"] = "r_read"
    /\ loc["reader"] = connection
    /\ f \in Range(wire) \ answered
    /\ answered' = answered \cup {f}
    /\ rresp' = futId[f]
    /\ loc' = [loc EXCEPT !["reader"] = 0]
    /\ pc' = [pc EXCEPT !["reader"] = "r_deliver"]
    /\ UNCHANGED <<connVars, mutex, requestId, requests, packets, envVars,
                   wpkt, buf, wire, netErrs, closeVars, submitVars, futVars>>

\* the err of read(r) or of decodeHeader on socket s, as the reader hands
\* it to closeConnection (245, 252)
readErrorOfNoSocket(s) == NetErr(0)
readError(s) == NetErr(s)

\* read(r) or decodeHeader returns an error (the socket was closed by
\* closeConnection, or the network or the frame is broken) and the reader
\* calls closeConnection(err) and continues (244-246, 251-253)
ReaderReadError ==
    /\ Running
    /\ pc["reader"] = "r_read"
    /\ ioError("reader")
    /\ closeConnection(readError(loc["reader"]))
    /\ loc' = [loc EXCEPT !["reader"] = 0]
    /\ pc' = [pc EXCEPT !["reader"] = "r_top"]
    /\ UNCHANGED <<requestId, packets, envVars, rresp, wpkt, closeVars,
                   submitVars>>

\* delete(conn.requests, resp.RequestId) (257)
fulfilledKeepsEntry(reqs, id) == reqs
fulfilled(reqs, id) == [reqs EXCEPT ![id] = 0]

\* the else branch of the lookup: unlock and log.Printf, the registry is
\* left as it is (261-264)
unexpectedDrops(reqs) == EmptyRegistry
unexpected(reqs) == reqs

\* lock; look the id up; delete the entry, set resp, close(fut.c); unlock;
\* an unknown id is logged and dropped (255-264)
ReaderDeliver ==
    /\ Running
    /\ pc["reader"] = "r_deliver"
    /\ mutex = "free"
    /\ IF requests[rresp] # 0
         THEN /\ requests' = fulfilled(requests, rresp)
              /\ futState' = [futState EXCEPT ![requests[rresp]] = "ok"]
              /\ futDone' = [futDone EXCEPT ![requests[rresp]] = @ + 1]
              /\ regNoSocket' = regNoSocket \ {requests[rresp]}
              /\ UNCHANGED futErr
         ELSE /\ requests' = unexpected(requests)
              /\ UNCHANGED futVars
    /\ rresp' = 0
    /\ pc' = [pc EXCEPT !["reader"] = "r_top"]
    /\ UNCHANGED <<connVars, mutex, requestId, packets, envVars, loc,
                   wpkt, sockVars, netErrs, closeVars, submitVars>>

\* ---------------------------------------------------------------------
\* writer (part_000:202-233)

\* select { case packet = <-conn.packets: default: } (206-208)
WriterTop ==
    /\ Running
    /\ pc["writer"] = "w_top"
    /\ IF packets # <<>>
         THEN /\ wpkt' = Head(packets)
              /\ packets' = Tail(packets)
              /\ pc' = [pc EXCEPT !["writer"] = "w_have"]
         ELSE /\ pc' = [pc EXCEPT !["writer"] = "w_flush"]
              /\ UNCHANGED <<wpkt, packets>>
    /\ UNCHANGED <<connVars, mutex, requestId, requests, envVars, loc,
                   rresp, sockVars, netErrs, closeVars, submitVars, futVars>>

\* the default branch of the first select: a stored writer c with frames
\* b in its buffer is flushed before the second select (209-213)
flushSkipped(c, b) == FALSE
flushDue(c, b) == c # 0 /\ b # <<>>

\* if w = conn.w; w != nil { w.Flush() } (209-210); a Flush with nothing
\* buffered returns nil without touching the socket
WriterFlushRead ==
    /\ Running
    /\ pc["writer"] = "w_flush"
    /\ IF ~flushDue(connection, buf)
         THEN /\ pc' = [pc EXCEPT !["writer"] = "w_park"]
              /\ UNCHANGED loc
         ELSE /\ loc' = [loc EXCEPT !["writer"] = connection]
              /\ pc' = [pc EXCEPT !["writer"] = "w_doflush"]
    /\ UNCHANGED <<connVars, mutex, requestId, requests, packets, envVars,
                   rresp, wpkt, sockVars, netErrs, closeVars, submitVars,
                   futVars>>

\* w.Flush() returns nil: the buffered frames went out on the open
\* socket (210)
WriterFlushOk ==
    /\ Running
    /\ pc["writer"] = "w_doflush"
    /\ loc["writer"] = connection
    /\ wire' = flushed(wire, buf)
    /\ buf' = <<>>
    /\ loc' = [loc EXCEPT !["writer"] = 0]
    /\ pc' = [pc EXCEPT !["writer"] = "w_park"]
    /\ UNCHANGED <<connVars, mutex, requestId, requests, packets, envVars,
                   rresp, wpkt, answered, netErrs, closeVars, submitVars,
                   futVars>>

\* w.Flush() returns an error (the socket is closed or the network is
\* broken) and the writer calls closeConnection(err) (210-212)
WriterFlushError ==
    /\ Running
    /\ pc["writer"] = "w_doflush"
    /\ ioError("writer")
    /\ closeConnection(NetErr(loc["writer"]))
    /\ loc' = [loc EXCEPT !["writer"] = 0]
    /\ pc' = [pc EXCEPT !["writer"] = "w_park"]
    /\ UNCHANGED <<requestId, packets, envVars, rresp, wpkt, closeVars,
                   submitVars>>

\* select { case packet = <-conn.packets: ... } (214-215)
WriterParkPacket ==
    /\ Running
    /\ pc["writer"] = "w_park"
    /\ packets # <<>>
    /\ wpkt' = Head(packets)
    /\ packets' = Tail(packets)
    /\ pc' = [pc EXCEPT !["writer"] = "w_have"]
    /\ UNCHANGED <<connVars, mutex, requestId, requests, envVars, loc,
                   rresp, sockVars, netErrs, closeVars, submitVars, futVars>>

\* a receive from conn.control is ready once the channel is closed (216)
controlReadyNever(c) == FALSE
controlReady(c) == c

\* select { ... case <-conn.control: return } (216-217)
WriterParkControl ==
    /\ Running
    /\ pc["writer"] = "w_park"
    /\ controlReady(controlClosed)
    /\ pc' = [pc EXCEPT !["writer"] = "done"]
    /\ UNCHANGED <<connVars, mutex, requestId, requests, packets, envVars,
                   loc, rresp, wpkt, sockVars, netErrs, closeVars,
                   submitVars, futVars>>

\* if w = conn.w; w == nil { createConnection } (223-227); a packet is
\* never nil, conn.packets is never closed (220)
WriterHave ==
    /\ Running
    /\ pc["writer"] = "w_have"
    /\ IF connection = 0
         THEN /\ pc' = [pc EXCEPT !["writer"] = "cc_lock"]
              /\ UNCHANGED loc
         ELSE /\ loc' = [loc EXCEPT !["writer"] = connection]
              /\ pc' = [pc EXCEPT !["writer"] = "w_write"]
    /\ UNCHANGED <<connVars, mutex, requestId, requests, packets, envVars,
                   rresp, wpkt, sockVars, netErrs, closeVars, submitVars,
                   futVars>>

\* write(w, packet) returns nil: the frame fits in the buffer of w (228);
\* the buffer of a socket that was closed meanwhile is never sent
WriterWriteBuffered ==
    /\ Running
    /\ pc["writer"] = "w_write"
    /\ buf' = IF loc["writer"] = connection THEN Append(buf, wpkt) ELSE buf
    /\ wpkt' = 0
    /\ loc' = [loc EXCEPT !["writer"] = 0]
    /\ pc' = [pc EXCEPT !["writer"] = "w_top"]
    /\ UNCHANGED <<connVars, mutex, requestId, requests, packets, envVars,
                   rresp, wire, answered, netErrs, closeVars, submitVars,
                   futVars>>

\* write(w, packet) returns nil after the full buffer went out on the
\* open socket to make room for the frame (228)
WriterWriteThrough ==
    /\ Running
    /\ pc["writer"] = "w_write"
    /\ buf # <<>>
    /\ loc["writer"] = connection
    /\ wire' = flushed(wire, buf)
    /\ buf' = <<wpkt>>
    /\ wpkt' = 0
    /\ loc' = [loc EXCEPT !["writer"] = 0]
    /\ pc' = [pc EXCEPT !["writer"] = "w_top"]
    /\ UNCHANGED <<connVars, mutex, requestId, requests, packets, envVars,
                   rresp, answered, netErrs, closeVars, submitVars, futVars>>

\* write(w, packet) returns an error (the socket is closed or the network
\* is broken); the writer calls closeConnection(err) and continues, the
\* packet is dropped (228-230)
WriterWriteError ==
    /\ Running
    /\ pc["writer"] = "w_write"
    /\ ioError("writer")
    /\ closeConnection(NetErr(loc["writer"]))
    /\ wpkt' = 0
    /\ loc' = [loc EXCEPT !["writer"] = 0]
    /\ pc' = [pc EXCEPT !["writer"] = "w_top"]
    /\ UNCHANGED <<requestId, packets, envVars, rresp, closeVars,
                   submitVars>>

\* ---------------------------------------------------------------------
\* Close (part_000:62-67)

\* conn.closed = true (63)
CloseStartKeepsOpen ==
    /\ Running
    /\ cpc = "idle"
    /\ cpc' = "c_flag"
    /\ UNCHANGED <<connVars, mutex, requestId, requests, packets, envVars,
                   pc, loc, rresp, wpkt, sockVars, netErrs, closed,
                   controlClosed, closeCalls, submitVars, futVars>>
CloseStart ==
    /\ Running
    /\ cpc = "idle"
    /\ closed' = TRUE
    /\ cpc' = "c_flag"
    /\ UNCHANGED <<connVars, mutex, requestId, requests, packets, envVars,
                   pc, loc, rresp, wpkt, sockVars, netErrs, controlClosed,
                   closeCalls, submitVars, futVars>>

\* close(conn.control) (64); closing a closed channel panics
CloseControl ==
    /\ Running
    /\ cpc = "c_flag"
    /\ IF controlClosed
         THEN /\ cpc' = "panic"
              /\ UNCHANGED controlClosed
         ELSE /\ controlClosed' = TRUE
              /\ cpc' = "c_chan"
    /\ UNCHANGED <<connVars, mutex, requestId, requests, packets, envVars,
                   pc, loc, rresp, wpkt, sockVars, netErrs, closed,
                   closeCalls, submitVars, futVars>>

\* err = conn.closeConnection(errors.New("client closed connection"));
\* return (65-66)
CloseFinish ==
    /\ Running
    /\ cpc = "c_chan"
    /\ closeConnection(ErrClientClosed)
    /\ cpc' = "idle"
    /\ closeCalls' = 1
    /\ UNCHANGED <<requestId, packets, envVars, pc, loc, rresp, wpkt,
                   netErrs, closed, controlClosed, submitVars>>

\* ---------------------------------------------------------------------
\* nextRequestId (part_000:305-307) and request submission

\* atomic.AddUint32(&conn.requestId, 1)
nextRequestIdNoIncrement(id) == id
nextRequestId(id) == (id + 1) % IdMod

\* Submit, first part: a closed connection refuses the request with a
\* completed future; otherwise the request gets its id
SubmitStart(f) ==
    /\ Running
    /\ stage[f] = "none"
    /\ \A g \in Futs : g < f => stage[g] # "none"
    /\ IF closed
         THEN /\ stage' = [stage EXCEPT ![f] = "ret"]
              /\ futState' = [futState EXCEPT ![f] = "err"]
              /\ futErr' = [futErr EXCEPT ![f] = ErrClosed]
              /\ futDone' = [futDone EXCEPT ![f] = 1]
              /\ UNCHANGED <<requestId, futId, regNoSocket>>
         ELSE /\ requestId' = nextRequestId(requestId)
              /\ futId' = [futId EXCEPT ![f] = nextRequestId(requestId)]
              /\ stage' = [stage EXCEPT ![f] = "reg"]
              /\ UNCHANGED futVars
    /\ UNCHANGED <<connVars, mutex, requests, packets, envVars, pc, loc,
                   rresp, wpkt, sockVars, netErrs, closeVars>>

\* Submit, register: under the mutex store id -> future
SubmitRegister(f) ==
    /\ Running
    /\ stage[f] = "reg"
    /\ mutex = "free"
    /\ requests' = [requests EXCEPT ![futId[f]] = f]
    /\ regNoSocket' = IF connection = 0 /\ dialed >= 1
                        THEN regNoSocket \cup {f} ELSE regNoSocket
    /\ stage' = [stage EXCEPT ![f] = "enq"]
    /\ UNCHANGED <<connVars, mutex, requestId, packets, envVars, pc, loc,
                   rresp, wpkt, sockVars, netErrs, closeVars, futId,
                   futState, futErr, futDone>>

\* Submit, enqueue: conn.packets <- packet blocks while the queue is
\* full; then the future is returned
SubmitEnqueue(f) ==
    /\ Running
    /\ stage[f] = "enq"
    /\ Len(packets) < PacketsCap
    /\ packets' = Append(packets, f)
    /\ stage' = [stage EXCEPT ![f] = "ret"]
    /\ UNCHANGED <<connVars, mutex, requestId, requests, envVars, pc, loc,
                   rresp, wpkt, sockVars, netErrs, closeVars, futId, futVars>>

Next ==
    \/ \E p \in Procs : CreateLock(p)
    \/ \E p \in Procs : DialOk(p)
    \/ \E p \in Procs : DialFail(p)
    \/ \E p \in Procs : ReconnectSleep(p)
    \/ ReaderTop
    \/ \E f \in Futs : ReaderRead(f)
    \/ ReaderReadError
    \/ ReaderDeliver
    \/ WriterTop
    \/ WriterFlushRead
    \/ WriterFlushOk
    \/ WriterFlushError
    \/ WriterParkPacket
    \/ WriterParkControl
    \/ WriterHave
    \/ WriterWriteBuffered
    \/ WriterWriteThrough
    \/ WriterWriteError
    \/ CloseStart
    \/ CloseControl
    \/ CloseFinish
    \/ \E f \in Futs : SubmitStart(f)
    \/ \E f \in Futs : SubmitRegister(f)
    \/ \E f \in Futs : SubmitEnqueue(f)

Spec == Init /\ [][Next]_vars

TypeOK ==
    /\ connection \in 0..MaxSockets
    /\ dialed \in 0..MaxSockets
    /\ opened \subseteq 1..MaxSockets
    /\ mutex \in {"free"} \cup Procs
    /\ requestId \in Ids
    /\ requests \in [Ids -> 0..MaxSubmits]
    /\ Len(packets) <= PacketsCap
    /\ closed \in BOOLEAN
    /\ netErrs \in 0..MaxNetErrors
    /\ closeCalls \in 0..1
    /\ \A f \in Futs : futDone[f] \in 0..1

\* ---------------------------------------------------------------------
\* Properties

\* futures whose Submit got a request id
Allocated == {f \in Futs : stage[f] \in {"reg", "enq"} \/
                           (stage[f] = "ret" /\ futErr[f] # ErrClosed)}

\* C3: concurrent nextRequestId calls never return the same request id,
\* and a call that starts after another returned gets a strictly larger
\* id, as long as the counter has not wrapped.
C3_RequestIdsUnique ==
    \A f, g \in Allocated :
        /\ (f # g /\ Cardinality(Allocated) < IdMod) => futId[f] # futId[g]
        /\ (f < g /\ g < IdMod) => futId[f] < futId[g]

\* two Submit calls are in flight at once and hold different ids
C3_Witness ==
    \E f, g \in Futs :
        /\ f # g
        /\ stage[f] = "reg"
        /\ stage[g] = "reg"
        /\ futId[f] # futId[g]

\* C1: when closeConnection tears an established socket down after an I/O
\* error, every future in the registry at that moment is completed exactly
\* once with that error, and the registry is empty when the mutex is
\* released.
C1_TearDownFailsAll ==
    [][ /\ (connection # 0 /\ connection' = 0 /\ cpc' = cpc) =>
            \E p \in Procs :
                /\ pc'[p] # pc[p]
                /\ requests' = EmptyRegistry
                /\ mutex' = "free"
                /\ \A f \in Futs :
                     IF f \in InRegistry(requests)
                       THEN /\ futState[f] = "pending"
                            /\ futDone[f] = 0
                            /\ futState'[f] = "err"
                            /\ futErr'[f] = NetErr(loc[p])
                            /\ futDone'[f] = 1
                       ELSE /\ futState'[f] = futState[f]
                            /\ futErr'[f] = futErr[f]
                            /\ futDone'[f] = futDone[f]
        /\ \A f \in Futs : futDone[f] >= 1 =>
                /\ futState'[f] = futState[f]
                /\ futErr'[f] = futErr[f]
                /\ futDone'[f] = futDone[f]
      ]_vars

\* a tear-down has failed two pending futures with one network error
C1_Witness ==
    \E f, g \in Futs : \E s \in Socks :
        /\ f # g
        /\ futState[f] = "err" /\ futErr[f] = NetErr(s) /\ futDone[f] = 1
        /\ futState[g] = "err" /\ futErr[g] = NetErr(s) /\ futDone[g] = 1
        /\ connection = 0
        /\ requests = EmptyRegistry

\* C2: on a connection that is never closed every future Submit returned
\* is eventually completed; in particular no returned future is still
\* pending once both the reader and the writer loop have returned, because
\* nothing completes a future after that.
C2_EveryFutureCompletes ==
    (~closed /\ pc["reader"] = "done" /\ pc["writer"] = "done") =>
        \A f \in Futs : stage[f] = "ret" => futState[f] # "pending"

\* Close() has been invoked
closeInvoked == cpc # "idle" \/ closeCalls >= 1

\* C4: a Submit that starts after Close() was invoked returns at once a
\* future completed with the closed error; it adds no registry entry and
\* enqueues no frame.
C4_SubmitAfterClose ==
    [][ \A f \in Futs :
          (closeInvoked /\ stage[f] = "none" /\ stage'[f] # "none") =>
              /\ stage'[f] = "ret"
              /\ futState'[f] = "err"
              /\ futErr'[f] = ErrClosed
              /\ futDone'[f] = 1
              /\ requests' = requests
              /\ packets' = packets
              /\ f \notin InRegistry(requests')
              /\ f \notin Range(packets')
      ]_vars

\* a Submit made after Close() returned a future completed with the
\* closed error
C4_Witness ==
    \E f \in Futs :
        /\ closeCalls >= 1
        /\ stage[f] = "ret"
        /\ futState[f] = "err"
        /\ futErr[f] = ErrClosed

\* C5: Close() fails the pending futures whether or not a socket is
\* stored: when Close() returns, every future that was in the registry is
\* completed and the registry is empty.
C5_CloseFailsPending ==
    [][ (cpc = "c_chan" /\ cpc' = "idle") =>
            /\ requests' = EmptyRegistry
            /\ \A f \in InRegistry(requests) : futState'[f] # "pending"
      ]_vars

\* C6: a second Close() returns normally: Close() never panics.
C6_CloseIdempotent == cpc # "panic"

\* C7: the frame of a request whose future was completed with a network
\* error is not transmitted afterwards.
C7_FailedNotTransmitted ==
    [][ \A f \in Futs :
          (f \in Range(wire') /\ f \notin Range(wire)) =>
              ~(futState[f] = "err" /\ futErr[f][1] = "net")
      ]_vars

\* C8: with reconnect > 0, a future registered while no socket is stored
\* after a disconnect is not failed by the earlier disconnect: a network
\* error that fails it is an error of the socket stored at that moment,
\* which was established after the future was registered.
C8_ParkedNotFailedByEarlierDisconnect ==
    [][ \A f \in regNoSocket :
          (reconnect > 0 /\ futState'[f] = "err" /\ futErr'[f][1] = "net") =>
              futErr'[f][2] = connection
      ]_vars

\* C9: with reconnect == 0, a request submitted before the first
\* successful dial fails fast: when the dial made for its packet has failed
\* and both loops have returned, its future is not left pending.
C9_FailFastWithoutReconnect ==
    (reconnect = 0 /\ ~closed /\ dialed = 0 /\ wpkt # 0
                   /\ pc["writer"] = "done" /\ pc["reader"] = "done") =>
        futState[wpkt] # "pending"

\* C10: Submit blocks its caller only when the outbound queue is full: a
\* Submit that has not returned can take its next step, or the queue is
\* full.
C10_SubmitBlocksOnlyOnFullQueue ==
    \A f \in Futs :
        (stage[f] = "reg" /\ mutex # "free") => Len(packets) = PacketsCap

\* ---------------------------------------------------------------------
\* frames on their way: on the wire of the stored socket, in its buffer,
\* in the hand of the writer, in conn.packets (oldest first)
Pipeline ==
    wire \o buf \o (IF wpkt = 0 THEN <<>> ELSE <<wpkt>>) \o packets

\* f comes before g in the sequence s
Before(s, f, g) ==
    \E i, j \in 1..Len(s) : i < j /\ s[i] = f /\ s[j] = g

Registered == {f \in Futs : stage[f] \in {"enq", "ret"}}

\* C12: a future is completed at most once: its channel is closed once,
\* by the reader or by closeConnection; a registered future is in the
\* registry exactly while it is pending, so the step that completes it
\* removes it; a completed future keeps its result for ever.
C12_CompletedOnce ==
    /\ [](\A f \in Futs :
            /\ futDone[f] = (IF futState[f] = "pending" THEN 0 ELSE 1)
            /\ f \in Registered =>
                 (requests[futId[f]] = f <=> futState[f] = "pending")
            /\ f \notin Registered => f \notin InRegistry(requests))
    /\ [][ \A f \in Futs :
             futState[f] # "pending" =>
                 /\ futState'[f] = futState[f]
                 /\ futErr'[f] = futErr[f]
                 /\ futDone'[f] = futDone[f]
         ]_vars

\* one future was completed by the reader with a response and another by
\* closeConnection with a network error, each once
C12_Witness ==
    \E f, g \in Futs :
        /\ futState[f] = "ok" /\ futDone[f] = 1
        /\ futState[g] = "err" /\ futErr[g][1] = "net" /\ futDone[g] = 1
        /\ InRegistry(requests) = {}

\* ---------------------------------------------------------------------
\* Future.Get with a deadline (opts.Timeout, part_000:36)

\* the deadline of a pending future expires: the waiter returns Timeout;
\* the entry stays in the registry and the future stays uncompleted
GetTimeout(f) ==
    /\ Running
    /\ stage[f] = "ret"
    /\ futState[f] = "pending"
    /\ stage' = [stage EXCEPT ![f] = "timedout"]
    /\ UNCHANGED <<connVars, mutex, requestId, requests, packets, envVars,
                   pc, loc, rresp, wpkt, sockVars, netErrs, closeVars, futId,
                   futVars>>

\* the connection with callers that wait with a deadline
NextTimeout ==
    \/ Next
    \/ \E f \in Futs : GetTimeout(f)

SpecTimeout == Init /\ [][NextTimeout]_vars

\* C13: after the waiter of a pending future got Timeout, the entry stays
\* in the registry and a response that arrives later for its id is
\* discarded by the reader: the reader's lookup step leaves the registry
\* and the future as they are.
C13_LateResponseDiscarded ==
    [][ \A f \in Futs :
          ( /\ stage[f] = "timedout" /\ futState[f] = "pending"
            /\ pc["reader"] = "r_deliver" /\ rresp = futId[f]
            /\ pc'["reader"] = "r_top" )
          => /\ requests' = requests
             /\ futState'[f] = "pending"
      ]_vars

\* ---------------------------------------------------------------------
\* dial (part_000:69-99), auth (101-122), writeAuthRequest (124-139) and
\* readAuthResponse (141-156), step by step.  dial runs inside
\* createConnection with conn.mutex held, so nothing else touches the
\* connection meanwhile.  It is called again after a failure by the loop of
\* createConnection (opts.Reconnect > 0) or by the other goroutine, and
\* after closeConnection closed the stored socket.

Users == {"", "test"}
AuthCodes == 0..MaxCode

\* Response.decodeBody on the AUTH response: a non-zero code is returned
\* as an error
decodeBody(code) == IF code = 0 THEN "none" ELSE "auth"

\* if err = conn.auth(r, w); err != nil { connection.Close(); return } (88)
afterAuthIgnoresError(err) == "store"
afterAuth(err) == IF err = "none" THEN "store" ELSE "idle"

\* everything dial does not touch
dialFrame ==
    UNCHANGED <<mutex, requestId, requests, packets, reconnect, user, pc, loc,
                rresp, wpkt, sockVars, netErrs, closeVars, submitVars,
                futVars, codeVars, poolVars, aboveVars>>

\* auth returned err: dial closes the dialed socket and returns err, or
\* goes on to store the socket
authReturns(err) ==
    /\ dpc' = afterAuth(err)
    /\ dialErr' = err
    /\ dsock' = IF afterAuth(err) = "idle" THEN "closed" ELSE dsock
    /\ opened' = IF afterAuth(err) = "idle"
                   THEN closeSocket(opened, dialed + 1) ELSE opened
    /\ UNCHANGED <<connection, dialed, dials, greetingAuth>>

\* net.Dial succeeds; r and w are made for the new socket (70-76)
DialNetOk ==
    /\ dpc = "idle"
    /\ connection = 0
    /\ dials < MaxDials
    /\ dialed < MaxSockets
    /\ dials' = dials + 1
    /\ dsock' = "open"
    /\ opened' = opened \cup {dialed + 1}
    /\ authSent' = FALSE
    /\ authCode' = -1
    /\ dialErr' = "none"
    /\ dpc' = "greeting"
    /\ UNCHANGED <<connection, dialed, greetingAuth>>
    /\ dialFrame

\* net.Dial fails and dial returns the error (70-73)
DialNetError ==
    /\ dpc = "idle"
    /\ connection = 0
    /\ dials < MaxDials
    /\ dialed < MaxSockets
    /\ dials' = dials + 1
    /\ dsock' = "none"
    /\ authSent' = FALSE
    /\ authCode' = -1
    /\ dialErr' = "dial"
    /\ UNCHANGED <<connVars, dpc, greetingAuth>>
    /\ dialFrame

\* connection.Read(greeting) succeeds; version and auth are cut out of the
\* 128 bytes, so Greeting.auth is 44 bytes long whatever was read (77-85)
ReadGreetingOk(g) ==
    /\ dpc = "greeting"
    /\ greetingAuth' = g
    /\ dpc' = "auth"
    /\ UNCHANGED <<connVars, dsock, authSent, authCode, dialErr, dials>>
    /\ dialFrame

\* connection.Read(greeting) fails: the socket is closed (79-83)
ReadGreetingError ==
    /\ dpc = "greeting"
    /\ dsock' = "closed"
    /\ opened' = closeSocket(opened, dialed + 1)
    /\ dialErr' = "greeting"
    /\ dpc' = "idle"
    /\ UNCHANGED <<connection, dialed, greetingAuth, authSent, authCode,
                   dials>>
    /\ dialFrame

\* auth with an empty user name returns nil at once (102-104)
AuthGuest ==
    /\ dpc = "auth"
    /\ user = ""
    /\ authReturns("none")
    /\ UNCHANGED <<authSent, authCode>>
    /\ dialFrame

\* auth fails before anything is sent: r and w are never nil here and
\* Greeting.auth is never empty after a greeting, but scramble fails on a
\* salt that is not base64 (105-114)
AuthScrambleError ==
    /\ dpc = "auth"
    /\ user # ""
    /\ greetingAuth # "salt"
    /\ authReturns("auth")
    /\ UNCHANGED <<authSent, authCode>>
    /\ dialFrame

\* writeAuthRequest packs, writes and flushes the AUTH request (115, 124-139)
AuthWriteOk ==
    /\ dpc = "auth"
    /\ user # ""
    /\ greetingAuth = "salt"
    /\ authSent' = TRUE
    /\ dpc' = "authresp"
    /\ UNCHANGED <<connVars, dsock, greetingAuth, authCode, dialErr, dials>>
    /\ dialFrame

\* pack, write or Flush of the AUTH request fails (128-137)
AuthWriteError ==
    /\ dpc = "auth"
    /\ user # ""
    /\ greetingAuth = "salt"
    /\ authReturns("auth")
    /\ UNCHANGED <<authSent, authCode>>
    /\ dialFrame

\* readAuthResponse reads and decodes the response with the given code
\* (142-155); auth returns what decodeBody returns
AuthResponse(code) ==
    /\ dpc = "authresp"
    /\ authCode' = code
    /\ authReturns(decodeBody(code))
    /\ UNCHANGED authSent
    /\ dialFrame

\* read or decodeHeader of the AUTH response fails, or its body cannot be
\* decoded (143-154)
AuthResponseError ==
    /\ dpc = "authresp"
    /\ authReturns("auth")
    /\ UNCHANGED <<authSent, authCode>>
    /\ dialFrame

\* only if connected and authenticated: conn.connection = connection,
\* conn.r = r, conn.w = w (93-98)
DialStore ==
    /\ dpc = "store"
    /\ connection' = dialed + 1
    /\ dialed' = dialed + 1
    /\ dpc' = "idle"
    /\ UNCHANGED <<opened, dsock, greetingAuth, authSent, authCode, dialErr,
                   dials>>
    /\ dialFrame

\* closeConnection closes the stored socket and clears conn.connection,
\* conn.r and conn.w (190-193); the next createConnection dials again
DialSocketLost ==
    /\ dpc = "idle"
    /\ connection # 0
    /\ connection' = 0
    /\ opened' = closeSocket(opened, connection)
    /\ dsock' = "closed"
    /\ UNCHANGED <<dialed, dpc, greetingAuth, authSent, authCode, dialErr,
                   dials>>
    /\ dialFrame

NextDial ==
    \/ DialNetOk
    \/ DialNetError
    \/ \E g \in {"salt", "junk"} : ReadGreetingOk(g)
    \/ ReadGreetingError
    \/ AuthGuest
    \/ AuthScrambleError
    \/ AuthWriteOk
    \/ AuthWriteError
    \/ \E code \in AuthCodes : AuthResponse(code)
    \/ AuthResponseError
    \/ DialStore
    \/ DialSocketLost

InitDial ==
    /\ ConnInit
    /\ user \in Users
    /\ DialIdle
    /\ PoolIdle

SpecDial == InitDial /\ [][NextDial]_vars

\* C14: dial stores the socket only after the greeting was read and
\* authentication succeeded: a stored socket is open, its dial returned no
\* error and, with a user name, its AUTH request was sent and answered
\* with code 0; a guest session never sends AUTH; and a step in which
\* auth fails closes the dialed socket, ends the attempt and leaves the
\* connection without a socket.
C14_StoredOnlyAfterAuth ==
    /\ [](user = "" => ~authSent)
    /\ [](connection # 0 =>
            /\ dsock = "open" /\ dialErr = "none" /\ greetingAuth # ""
            /\ user # "" => (authSent /\ authCode = 0))
    /\ [][ ((dpc = "authresp" /\ authCode' > 0) \/ dialErr' = "auth") =>
              (connection' = 0 /\ dpc' = "idle" /\ dsock' = "closed")
         ]_vars

\* the server answered the AUTH request of a user with a non-zero code:
\* the attempt failed, the socket is closed and nothing is stored
C14_Witness ==
    /\ user # "" /\ authSent /\ authCode > 0
    /\ dialErr = "auth" /\ dsock = "closed" /\ connection = 0

\* what Connect returns as err: the variable is never assigned (42-59)
ConnectErr == "none"

\* C15: when the server rejects the credentials in the first connect
\* attempt, Connect returns the auth error to its caller.
C15_ConnectReturnsAuthError ==
    (user # "" /\ dials = 1 /\ dialErr = "auth" /\ authCode > 0) =>
        ConnectErr = "auth"

\* ---------------------------------------------------------------------
\* the reader with the response code of each frame (part_000:243-264)

\* the response codes followed: success and the largest error code
Codes == {0, MaxCode}

\* fut.resp = resp (258): the future holds the response as it was read
respDropsCode(code) == 0
respOf(code) == code

\* read(r) returns the response of the server to a frame it received, with
\* the given response code; decodeHeader gives its request id and code
\* (243-249)
ReaderReadCoded(f, code) ==
    /\ Running
    /\ pc["reader"] = "r_read"
    /\ loc["reader"] = connection
    /\ f \in Range(wire) \ answered
    /\ answered' = answered \cup {f}
    /\ rresp' = futId[f]
    /\ rcode' = code
    /\ loc' = [loc EXCEPT !["reader"] = 0]
    /\ pc' = [pc EXCEPT !["reader"] = "r_deliver"]
    /\ UNCHANGED <<connVars, mutex, requestId, requests, packets, reconnect,
                   user, dialVars, poolVars, aboveVars, futCode, wpkt, buf, wire,
                   netErrs, closeVars, submitVars, futVars>>

\* lock; look the id up; delete the entry, set resp, close(fut.c); unlock;
\* an unknown id is logged and dropped; the code is not looked at (255-264)
ReaderDeliverCoded ==
    /\ Running
    /\ pc["reader"] = "r_deliver"
    /\ mutex = "free"
    /\ IF requests[rresp] # 0
         THEN /\ requests' = fulfilled(requests, rresp)
              /\ futState' = [futState EXCEPT ![requests[rresp]] = "ok"]
              /\ futCode' = [futCode EXCEPT ![requests[rresp]] = respOf(rcode)]
              /\ futDone' = [futDone EXCEPT ![requests[rresp]] = @ + 1]
              /\ regNoSocket' = regNoSocket \ {requests[rresp]}
              /\ UNCHANGED futErr
         ELSE UNCHANGED <<requests, futVars, futCode>>
    /\ rresp' = 0
    /\ rcode' = 0
    /\ pc' = [pc EXCEPT !["reader"] = "r_top"]
    /\ UNCHANGED <<connVars, mutex, requestId, packets, reconnect, user,
                   dialVars, poolVars, aboveVars, loc, wpkt, sockVars, netErrs,
                   closeVars, submitVars>>

NextCode ==
    \/ \E p \in Procs : CreateLock(p)
    \/ \E p \in Procs : DialOk(p)
    \/ \E p \in Procs : DialFail(p)
    \/ \E p \in Procs : ReconnectSleep(p)
    \/ ReaderTop
    \/ \E f \in Futs : \E code \in Codes : ReaderReadCoded(f, code)
    \/ ReaderReadError
    \/ ReaderDeliverCoded
    \/ WriterTop
    \/ WriterFlushRead
    \/ WriterFlushOk
    \/ WriterFlushError
    \/ WriterParkPacket
    \/ WriterParkControl
    \/ WriterHave
    \/ WriterWriteBuffered
    \/ WriterWriteThrough
    \/ WriterWriteError
    \/ CloseStart
    \/ CloseControl
    \/ CloseFinish
    \/ \E f \in Futs : SubmitStart(f)
    \/ \E f \in Futs : SubmitRegister(f)
    \/ \E f \in Futs : SubmitEnqueue(f)

SpecCode == Init /\ [][NextCode]_vars

\* C16: a response with a non-zero code completes the future with the
\* matching request id and nothing else: that future gets the response
\* with its code, the socket stays stored with its buffer and wire, no
\* other future changes and no other registry entry is removed.
C16_ServerErrorCompletesOnlyItsFuture ==
    [][ ( /\ pc["reader"] = "r_deliver" /\ pc'["reader"] = "r_top"
          /\ rcode > 0 ) =>
          /\ connection' = connection
          /\ <<buf, wire, answered>>' = <<buf, wire, answered>>
          /\ \A i \in Ids : i # rresp => requests'[i] = requests[i]
          /\ \A f \in Futs :
               IF requests[rresp] = f
                 THEN /\ futState'[f] = "ok" /\ futCode'[f] = rcode
                      /\ futErr'[f] = futErr[f] /\ futDone'[f] = 1
                      /\ requests'[rresp] = 0
                 ELSE /\ futState'[f] = futState[f] /\ futErr'[f] = futErr[f]
                      /\ futCode'[f] = futCode[f] /\ futDone'[f] = futDone[f]
      ]_vars

\* one future holds a response with a server error while another request
\* is still pending in the registry of the connected engine
C16_Witness ==
    \E f, g \in Futs :
        /\ futState[f] = "ok" /\ futCode[f] > 0
        /\ futState[g] = "pending" /\ requests[futId[g]] = g
        /\ g \in Registered
        /\ connection # 0

\* ---------------------------------------------------------------------
\* Pool: one connection per address, a role bit per instance kept by the
\* role probe, selection by mode with one round-robin cursor per mode

\* the role bit of instance i is r
roleMatchesAny(i, r) == TRUE
roleMatches(i, r) == poolRole[i] = r

\* the live members of the RW set, of the RO set, of the pool
RWSet == {i \in Insts : poolStatus[i] /\ roleMatches(i, "rw")}
ROSet == {i \in Insts : poolStatus[i] /\ roleMatches(i, "ro")}
AnySet == {i \in Insts : poolStatus[i]}

\* PreferRW and PreferRO: the first set if non-empty, else the second
preferredNoFallback(first, second) == first
preferred(first, second) == IF first # {} THEN first ELSE second

\* the instances eligible for a mode
Eligible(m) ==
    CASE m = "ANY" -> AnySet
      [] m = "RW" -> RWSet
      [] m = "RO" -> ROSet
      [] m = "PreferRW" -> preferred(RWSet, ROSet)
      [] m = "PreferRO" -> preferred(ROSet, RWSet)

\* the error of a selection that finds no instance
selectErrorSwapped(m) ==
    CASE m = "RW" -> "Can't find ro instance in pool"
      [] m = "RO" -> "Can't find rw instance in pool"
      [] OTHER -> "no instance"
selectError(m) ==
    CASE m = "RW" -> "Can't find rw instance in pool"
      [] m = "RO" -> "Can't find ro instance in pool"
      [] OTHER -> "no instance"

\* the n-th member of S in the order of the addresses
Nth(S, n) == CHOOSE x \in S : Cardinality({y \in S : y < x}) = n - 1

\* round robin: the member of S the cursor c points at
pickAt(S, c) == Nth(S, (c % Cardinality(S)) + 1)

\* the cursor advances on each selection
advanceStuck(c) == c
advance(c) == c + 1

\* number of selections made so far
Selections == cursor["ANY"] + cursor["RW"] + cursor["RO"]
                + cursor["PreferRW"] + cursor["PreferRO"]

\* the connections below the pool are not followed here
poolFrame ==
    UNCHANGED <<connVars, mutex, requestId, requests, packets, reconnect,
                user, dialVars, codeVars, aboveVars, pc, loc, rresp, wpkt,
                sockVars, netErrs, closeVars, submitVars, futVars>>

\* Pool.Op(..., mode) picks a connection by mode: the eligible member
\* under the cursor of the mode, or the error of the mode; the cursor
\* advances regardless of success
PoolSelect(m) ==
    /\ Selections < MaxSelects
    /\ picks' = Append(picks,
                  IF Eligible(m) = {}
                    THEN <<m, 0, selectError(m)>>
                    ELSE <<m, pickAt(Eligible(m), cursor[m]), "">>)
    /\ cursor' = [cursor EXCEPT ![m] = advance(cursor[m])]
    /\ UNCHANGED <<poolStatus, poolRole>>
    /\ poolFrame

\* the role probe of a connected instance succeeds: box.info gives ro
ProbeOk(i, r) ==
    /\ poolStatus[i]
    /\ poolRole' = [poolRole EXCEPT ![i] = r]
    /\ picks' = IF poolRole[i] = r THEN picks ELSE <<>>
    /\ UNCHANGED <<poolStatus, cursor>>
    /\ poolFrame

\* the role bit of an instance whose probe failed: its last known role
roleForgotten(r) == "unknown"
roleKept(r) == r

\* the status of the instances when the probe of instance i failed
staysHealthy(st, i) == st
unhealthy(st, i) == [st EXCEPT ![i] = FALSE]

\* the role probe fails: the instance is unhealthy, its last known role
\* is kept
ProbeFail(i) ==
    /\ poolStatus[i]
    /\ poolStatus' = unhealthy(poolStatus, i)
    /\ poolRole' = [poolRole EXCEPT ![i] = roleKept(poolRole[i])]
    /\ picks' = <<>>
    /\ UNCHANGED cursor
    /\ poolFrame

\* the reconnect loop of the connection brought the instance back
PoolReconnect(i) ==
    /\ ~poolStatus[i]
    /\ poolStatus' = [poolStatus EXCEPT ![i] = TRUE]
    /\ picks' = <<>>
    /\ UNCHANGED <<poolRole, cursor>>
    /\ poolFrame

NextPool ==
    \/ \E m \in Modes : PoolSelect(m)
    \/ \E i \in Insts : \E r \in {"rw", "ro"} : ProbeOk(i, r)
    \/ \E i \in Insts : ProbeFail(i)
    \/ \E i \in Insts : PoolReconnect(i)

\* Connect(addresses, opts, poolOpts): at least one address connected, no
\* role probed yet, every cursor at the start
InitPool ==
    /\ ConnInit
    /\ reconnect = 1
    /\ user = ""
    /\ DialIdle
    /\ poolStatus \in [Insts -> BOOLEAN]
    /\ \E i \in Insts : poolStatus[i]
    /\ poolRole = [i \in Insts |-> "unknown"]
    /\ cursor = [m \in Modes |-> 0]
    /\ picks = <<>>
    /\ AboveIdle

SpecPool == InitPool /\ [][NextPool]_vars

\* the selection made in this step, if the step is a selection
Selected == Len(picks') = Len(picks) + 1
selMode == picks'[Len(picks')][1]
selResult == picks'[Len(picks')][2]
selError == picks'[Len(picks')][3]

\* C17: a selection in mode RW returns only a live instance whose role
\* bit says read-write, and a selection in mode RO only a live instance
\* whose role bit says read-only.
C17_RoleMatchesMode ==
    [][ Selected =>
          /\ (selMode = "RW" /\ selResult \in Insts) =>
                (poolStatus[selResult] /\ poolRole[selResult] = "rw")
          /\ (selMode = "RO" /\ selResult \in Insts) =>
                (poolStatus[selResult] /\ poolRole[selResult] = "ro")
      ]_vars

\* with unchanged instances an RW selection and an RO selection each
\* returned an instance
C17_Witness ==
    \E j, k \in 1..Len(picks) :
        /\ picks[j][1] = "RW" /\ picks[j][2] \in Insts
        /\ picks[k][1] = "RO" /\ picks[k][2] \in Insts

\* the live instances whose role bit is known
KnownSet == {i \in Insts : poolStatus[i] /\ poolRole[i] # "unknown"}

\* PreferRW returned an RW instance if a live one exists, and otherwise
\* nothing but an RO instance; PreferRO symmetrically
PreferRWRight ==
    /\ {i \in KnownSet : poolRole[i] = "rw"} # {} =>
          (selResult \in Insts /\ poolRole[selResult] = "rw")
    /\ {i \in KnownSet : poolRole[i] = "rw"} = {} =>
          (selResult \in Insts => poolRole[selResult] = "ro")
PreferRORight ==
    /\ {i \in KnownSet : poolRole[i] = "ro"} # {} =>
          (selResult \in Insts /\ poolRole[selResult] = "ro")
    /\ {i \in KnownSet : poolRole[i] = "ro"} = {} =>
          (selResult \in Insts => poolRole[selResult] = "rw")

C19_EmptySetErrors ==
    [][ Selected =>
          /\ (selMode = "RW" /\ RWSet = {}) =>
                (selResult = 0 /\ selError = "Can't find rw instance in pool")
          /\ (selMode = "RO" /\ ROSet = {}) =>
                (selResult = 0 /\ selError = "Can't find ro instance in pool")
          /\ (selMode \in {"RW", "RO"} /\ selResult = 0) =>
                (poolStatus' = poolStatus /\ poolRole' = poolRole)
      ]_vars

\* both errors were returned
C19_Witness ==
    \E j, k \in 1..Len(picks) :
        /\ picks[j] = <<"RW", 0, "Can't find rw instance in pool">>
        /\ picks[k] = <<"RO", 0, "Can't find ro instance in pool">>

\* the results of the selections in mode m since the instances last
\* changed
PicksOf(m) ==
    LET inMode(e) == e[1] = m
        sel == SelectSeq(picks, inMode)
    IN [j \in 1..Len(sel) |-> sel[j][2]]

\* C20: round robin is fair: while the eligible set of a mode is
\* unchanged and has k members, any k consecutive selections in that mode
\* return each member exactly once.
C20_RoundRobinFair ==
    \A m \in Modes :
        LET k == Cardinality(Eligible(m))
            P == PicksOf(m)
        IN k > 0 =>
             \A j \in 1..Len(P) :
                 j + k - 1 <= Len(P) =>
                     {P[x] : x \in j..(j + k - 1)} = Eligible(m)

\* a mode with at least two eligible instances went once round and on
C20_Witness ==
    \E m \in Modes :
        /\ Cardinality(Eligible(m)) >= 2
        /\ Len(PicksOf(m)) > Cardinality(Eligible(m))

\* ---------------------------------------------------------------------
\* Pool over a cluster whose servers stop, restart and change their
\* read-only flag: the role probe and the reconnect loop of each
\* connection follow the servers until the pool is closed

\* number of changes of the cluster explored
MaxChanges == 3

\* the ro field of box.info of server i, as a role bit
answerMaster(i) == "rw"
answer(i) == IF serverRo[i] THEN "ro" ELSE "rw"

\* the probe tasks and the connections of the pool run until Close()
runsAfterClose == TRUE
runs == ~poolClosed

\* the pool reports itself connected: some instance is connected
connectedWhenAll == AnySet = Insts
ConnectedNow == AnySet # {}

\* the probe of a connected instance reaches its server and reads ro
ClusterProbeOk(i) ==
    /\ runs
    /\ serverUp[i]
    /\ ProbeOk(i, answer(i))

\* the probe of a connected instance finds its server gone
ClusterProbeFail(i) ==
    /\ runs
    /\ ~serverUp[i]
    /\ ProbeFail(i)

\* the reconnect loop of the connection of a disconnected instance reaches
\* the restarted server
ClusterReconnect(i) ==
    /\ runs
    /\ serverUp[i]
    /\ ~poolStatus[i]
    /\ poolStatus' = [poolStatus EXCEPT ![i] = TRUE]
    /\ instDialed' = [instDialed EXCEPT ![i] = @ + 1]
    /\ picks' = <<>>
    /\ UNCHANGED <<poolRole, cursor, serverUp, serverRo, poolClosed, changes,
                   routeVars, startVars>>
    /\ UNCHANGED <<connVars, mutex, requestId, requests, packets, reconnect,
                   user, dialVars, codeVars, pc, loc, rresp, wpkt, sockVars,
                   netErrs, closeVars, submitVars, futVars>>

\* what a change of the cluster leaves alone: the pool and its connections
clusterFrame ==
    UNCHANGED <<connVars, mutex, requestId, requests, packets, reconnect,
                user, dialVars, codeVars, poolVars, poolClosed, instDialed,
                routeVars, startVars, pc, loc, rresp, wpkt, sockVars,
                netErrs, closeVars, submitVars, futVars>>

\* a server of the cluster stops
ServerStop(i) ==
    /\ changes < MaxChanges
    /\ serverUp[i]
    /\ serverUp' = [serverUp EXCEPT ![i] = FALSE]
    /\ changes' = changes + 1
    /\ UNCHANGED serverRo
    /\ clusterFrame

\* a stopped server is started again
ServerStart(i) ==
    /\ changes < MaxChanges
    /\ ~serverUp[i]
    /\ serverUp' = [serverUp EXCEPT ![i] = TRUE]
    /\ changes' = changes + 1
    /\ UNCHANGED serverRo
    /\ clusterFrame

\* box.cfg{read_only = ...} on a running server
setRo(i) ==
    /\ serverUp[i]
    /\ serverRo' = [serverRo EXCEPT ![i] = ~serverRo[i]]
    /\ UNCHANGED serverUp
    /\ clusterFrame

\* the read-only flag of a server is switched
ServerSetRo(i) ==
    /\ changes < MaxChanges
    /\ changes' = changes + 1
    /\ setRo(i)

\* Pool.Close(): every connection is closed, the probe tasks terminate
PoolClose ==
    /\ ~poolClosed
    /\ poolClosed' = TRUE
    /\ poolStatus' = [i \in Insts |-> FALSE]
    /\ picks' = <<>>
    /\ UNCHANGED <<poolRole, cursor, serverUp, serverRo, changes, instDialed,
                   routeVars, startVars>>
    /\ UNCHANGED <<connVars, mutex, requestId, requests, packets, reconnect,
                   user, dialVars, codeVars, pc, loc, rresp, wpkt, sockVars,
                   netErrs, closeVars, submitVars, futVars>>

NextCluster ==
    \/ \E i \in Insts : ClusterProbeOk(i)
    \/ \E i \in Insts : ClusterProbeFail(i)
    \/ \E i \in Insts : ClusterReconnect(i)
    \/ \E i \in Insts : ServerStop(i)
    \/ \E i \in Insts : ServerStart(i)
    \/ \E i \in Insts : ServerSetRo(i)
    \/ PoolClose

\* Connect reached every server of a running cluster of masters; no role
\* has been probed yet
InitCluster ==
    /\ ConnInit
    /\ reconnect = 1
    /\ user = ""
    /\ DialIdle
    /\ poolStatus = [i \in Insts |-> TRUE]
    /\ poolRole = [i \in Insts |-> "unknown"]
    /\ cursor = [m \in Modes |-> 0]
    /\ picks = <<>>
    /\ serverUp = [i \in Insts |-> TRUE]
    /\ serverRo = [i \in Insts |-> FALSE]
    /\ poolClosed = FALSE
    /\ changes = 0
    /\ instDialed = [i \in Insts |-> 1]
    /\ lastOp = <<"", "">>
    /\ sent = {}
    /\ opErr = ""
    /\ addrs = <<>>
    /\ checkTimeout = 1
    /\ startPc = "idle"
    /\ startPool = FALSE
    /\ startErr = ""

SpecCluster == InitCluster /\ [][NextCluster]_vars

\* the probe of every instance fires every checkTimeout and the reconnect
\* loop of every connection dials again after every opts.Reconnect
ClusterFairness ==
    \A i \in Insts :
        /\ WF_vars(ClusterProbeOk(i))
        /\ WF_vars(ClusterProbeFail(i))
        /\ WF_vars(ClusterReconnect(i))

SpecClusterLive == SpecCluster /\ ClusterFairness

\* the running servers that are read-write, and those that are read-only
ClusterRW == {i \in Insts : serverUp[i] /\ ~serverRo[i]}
ClusterRO == {i \in Insts : serverUp[i] /\ serverRo[i]}

\* the sets of the pool are those of the cluster
RolesConverged == RWSet = ClusterRW /\ ROSet = ClusterRO

\* C21: after the read-only flags of the servers changed and a role probe
\* has run on every connected instance, the RW set of the pool is the set
\* of the servers that are now read-write and its RO set the set of those
\* now read-only: once the cluster stops changing the pool reaches these
\* sets and keeps them, so RW selections reach only the new RW set.
C21_RolesFollowCluster == <>[](poolClosed \/ RolesConverged)

\* a server was switched to read-only and the pool has it in its RO set,
\* and both sets are those of the cluster
C21_Witness ==
    /\ ~poolClosed
    /\ RolesConverged
    /\ \E i \in Insts : serverRo[i] /\ i \in ROSet

C24_ClosedStaysDisconnected ==
    /\ [](poolClosed => (~ConnectedNow /\ \A i \in Insts : ~poolStatus[i]))
    /\ [][ poolClosed =>
             /\ poolClosed'
             /\ poolStatus' = poolStatus
             /\ poolRole' = poolRole
         ]_vars

\* the pool is closed and, after the cluster changed, every server runs
\* while every instance is reported disconnected
C24_Witness ==
    /\ poolClosed
    /\ changes = MaxChanges
    /\ \A i \in Insts : serverUp[i] /\ ~poolStatus[i]

\* C28: a failed role probe sets the status of the instance to false and
\* leaves its role bit unchanged; only a successful probe changes a role
\* bit, to the ro flag its server reports.
C28_FailedProbeKeepsRole ==
    [][ \A i \in Insts :
          /\ (poolStatus[i] /\ ~poolStatus'[i] /\ ~poolClosed') =>
                (~serverUp[i] /\ poolRole'[i] = poolRole[i])
          /\ poolRole'[i] # poolRole[i] =>
                /\ poolStatus[i] /\ poolStatus'[i]
                /\ serverUp[i]
                /\ poolRole'[i] = answer(i)
      ]_vars

\* an instance of the open pool is unhealthy and still has the role its
\* last successful probe read
C28_Witness ==
    \E i \in Insts :
        /\ ~poolClosed
        /\ ~serverUp[i]
        /\ ~poolStatus[i]
        /\ poolRole[i] # "unknown"

\* ---------------------------------------------------------------------
\* Connect of the pool: validation of its arguments and the first
\* connection to every address

\* number of addresses given to Connect
MaxAddrs == 3
\* largest checkTimeout given to Connect
MaxCheckTimeout == 2

\* the address lists: for every address whether a connection to it can be
\* established
AddrLists == UNION {[1..n -> BOOLEAN] : n \in 0..MaxAddrs}
CheckTimeouts == (-1)..MaxCheckTimeout

ErrEmptyAddrs == "addrs (first argument) should not be empty"
ErrWrongCheckTimeout == "wrong check timeout, must be greater than 0"
ErrNoConnection == "no active connections"

\* at least one address of the list connects
connectsAll(a) == \A k \in 1..Len(a) : a[k]
connectsSome(a) == \E k \in 1..Len(a) : a[k]

\* what Connect of the pool leaves alone
startFrame ==
    UNCHANGED <<connVars, mutex, requestId, requests, packets, reconnect,
                user, dialVars, codeVars, poolVars, clusterVars, routeVars,
                pc, loc, rresp, wpkt, sockVars, netErrs, closeVars,
                submitVars, futVars, addrs, checkTimeout>>

\* Connect returns nil and err
startFails(err) ==
    /\ startPc' = "ret"
    /\ startPool' = FALSE
    /\ startErr' = err
    /\ startFrame

\* the address list is empty
ConnectEmptyAddrs ==
    /\ startPc = "call"
    /\ Len(addrs) = 0
    /\ startFails(ErrEmptyAddrs)

\* poolOpts.checkTimeout is not > 0
ConnectWrongCheckTimeout ==
    /\ startPc = "call"
    /\ checkTimeout <= 0
    /\ startFails(ErrWrongCheckTimeout)

\* the arguments are valid and no address connects
ConnectNoConnection ==
    /\ startPc = "call"
    /\ Len(addrs) > 0
    /\ checkTimeout > 0
    /\ ~connectsSome(addrs)
    /\ startFails(ErrNoConnection)

\* the arguments are valid and some address connects: the pool is
\* returned
ConnectPool ==
    /\ startPc = "call"
    /\ Len(addrs) > 0
    /\ checkTimeout > 0
    /\ connectsSome(addrs)
    /\ startPc' = "ret"
    /\ startPool' = TRUE
    /\ startErr' = ""
    /\ startFrame

NextStart ==
    \/ ConnectEmptyAddrs
    \/ ConnectWrongCheckTimeout
    \/ ConnectNoConnection
    \/ ConnectPool

\* a call of Connect of the pool with any address list and any
\* checkTimeout
InitStart ==
    /\ ConnInit
    /\ reconnect = 1
    /\ user = ""
    /\ DialIdle
    /\ poolStatus = [i \in Insts |-> FALSE]
    /\ poolRole = [i \in Insts |-> "unknown"]
    /\ cursor = [m \in Modes |-> 0]
    /\ picks = <<>>
    /\ serverUp = [i \in Insts |-> FALSE]
    /\ serverRo = [i \in Insts |-> FALSE]
    /\ poolClosed = FALSE
    /\ changes = 0
    /\ instDialed = [i \in Insts |-> 0]
    /\ lastOp = <<"", "">>
    /\ sent = {}
    /\ opErr = ""
    /\ addrs \in AddrLists
    /\ checkTimeout \in CheckTimeouts
    /\ startPc = "call"
    /\ startPool = FALSE
    /\ startErr = ""

SpecStart == InitStart /\ [][NextStart]_vars

\* C25: Connect of the pool returns a nil pool with "addrs (first
\* argument) should not be empty" for an empty address list, with "wrong
\* check timeout, must be greater than 0" for a checkTimeout that is not
\* > 0 (with one of the two when both arguments are wrong) and with "no
\* active connections" when no address connects; it returns the pool and
\* no error as soon as one address connects, even if others fail.
C25_ConnectValidates ==
    startPc = "ret" =>
        /\ startPool <=> startErr = ""
        /\ (Len(addrs) = 0 /\ checkTimeout > 0) => startErr = ErrEmptyAddrs
        /\ (Len(addrs) > 0 /\ checkTimeout <= 0) =>
              startErr = ErrWrongCheckTimeout
        /\ (Len(addrs) = 0 /\ checkTimeout <= 0) =>
              startErr \in {ErrEmptyAddrs, ErrWrongCheckTimeout}
        /\ (Len(addrs) > 0 /\ checkTimeout > 0
              /\ \A k \in 1..Len(addrs) : ~addrs[k]) =>
              startErr = ErrNoConnection
        /\ (Len(addrs) > 0 /\ checkTimeout > 0
              /\ \E k \in 1..Len(addrs) : addrs[k]) =>
              startPool

\* Connect returned the pool although one of its addresses did not
\* connect
C25_Witness ==
    /\ startPc = "ret"
    /\ startPool
    /\ \E k \in 1..Len(addrs) : ~addrs[k]

\* ---------------------------------------------------------------------
\* Operations of the pool: choice of the mode, selection, delegation to
\* the connection of the selected instance

\* number of operations of the pool explored
MaxOps == 1

Mutations == {"Insert", "Replace", "Update", "Delete", "Upsert"}
Reads == {"Select", "Ping"}
Ops == Mutations \cup Reads

\* the mode of an operation called without a mode
defaultModeAny(op) == "ANY"
defaultMode(op) == IF op \in Mutations THEN "RW" ELSE "ANY"

\* the mode an operation is routed with (m = "" : called without a mode)
modeOf(op, m) == IF m = "" THEN defaultMode(op) ELSE m

\* what the server of instance i answers: a read-only server rejects a
\* mutation with its own error
ErrReadOnly == "Can't modify data because this instance is in read-only mode."
serverReply(op, i) ==
    IF op \in Mutations /\ serverRo[i] THEN ErrReadOnly ELSE ""

\* the connections the request is submitted to: that of the selected
\* instance, whatever it answers
targetsRetry(S, i, err) == IF err = "" THEN {i} ELSE S
targets(S, i, err) == {i}

\* Pool.Op(..., mode) or Pool.Op(...): pick a connection by mode and
\* delegate to its Op; with no eligible instance return the routing error
PoolOp(op, m) ==
    /\ Selections < MaxOps
    /\ LET used == modeOf(op, m)
           S == Eligible(used)
       IN /\ IF S = {}
               THEN /\ sent' = {}
                    /\ opErr' = selectError(used)
               ELSE /\ sent' = targets(S, pickAt(S, cursor[used]),
                                       serverReply(op, pickAt(S, cursor[used])))
                    /\ opErr' = serverReply(op, pickAt(S, cursor[used]))
          /\ cursor' = [cursor EXCEPT ![used] = advance(cursor[used])]
    /\ lastOp' = <<op, m>>
    /\ UNCHANGED <<poolStatus, poolRole, picks, clusterVars, startVars>>
    /\ UNCHANGED <<connVars, mutex, requestId, requests, packets, reconnect,
                   user, dialVars, codeVars, pc, loc, rresp, wpkt, sockVars,
                   netErrs, closeVars, submitVars, futVars>>

\* the read-only flag of a server is switched, any number of times
RouteSetRo(i) ==
    /\ setRo(i)
    /\ UNCHANGED changes

NextRoute ==
    \/ \E op \in Ops : \E m \in Modes \cup {""} : PoolOp(op, m)
    \/ \E i \in Insts : ClusterProbeOk(i)
    \/ \E i \in Insts : RouteSetRo(i)

SpecRoute == InitCluster /\ [][NextRoute]_vars

\* the operation made in this step, if the step is an operation
Routed == Selections' = Selections + 1
opName == lastOp'[1]
opMode == lastOp'[2]

\* C26 as stated: an operation called without a mode is routed as RW when
\* it mutates and as ANY when it does not, and with exactly one read-write
\* server in the cluster every mutation called without a mode is
\* delivered to that server.
C26_DefaultMutationReachesMaster ==
    [][ (Routed /\ opMode = "") =>
          /\ opName \in Mutations =>
                (sent' \subseteq RWSet /\ (RWSet # {} => sent' # {}))
          /\ opName \in Reads =>
                (sent' \subseteq AnySet /\ (AnySet # {} => sent' # {}))
          /\ (opName \in Mutations /\ Cardinality(ClusterRW) = 1) =>
                sent' = ClusterRW
      ]_vars

\* C26 amended: an operation called without a mode is routed as RW when
\* it mutates and as ANY when it does not, and while the RW set of the
\* pool has exactly one member every mutation called without a mode is
\* delivered to that instance.
C26_DefaultModeByOperation ==
    [][ (Routed /\ opMode = "") =>
          /\ opName \in Mutations =>
                (sent' \subseteq RWSet /\ (RWSet # {} => sent' # {}))
          /\ opName \in Reads =>
                (sent' \subseteq AnySet /\ (AnySet # {} => sent' # {}))
          /\ (opName \in Mutations /\ Cardinality(RWSet) = 1) =>
                sent' = RWSet
      ]_vars

\* a mutation called without a mode was accepted by the only read-write
\* server while another server is read-only and known as such
C26_Witness ==
    /\ lastOp[1] \in Mutations
    /\ lastOp[2] = ""
    /\ opErr = ""
    /\ Cardinality(ClusterRW) = 1
    /\ sent = ClusterRW
    /\ ROSet # {}

\* C27: an operation of the pool submits its request to exactly one
\* connection when the selection succeeds and to none when it fails: the
\* request is not submitted to a second instance after an error, and a
\* routing error is returned with no connection consulted.
C27_OneConnectionPerOperation ==
    [][ Routed =>
          LET S == Eligible(modeOf(opName, opMode))
          IN /\ S # {} => (Cardinality(sent') = 1 /\ sent' \subseteq S)
             /\ S = {} =>
                   /\ sent' = {}
                   /\ opErr' = selectError(modeOf(opName, opMode))
                   /\ requests' = requests
                   /\ packets' = packets
      ]_vars

\* a mutation was routed to an instance whose role bit was stale, the
\* server rejected it and a second read-write instance was not tried
C27_Witness ==
    /\ opErr = ErrReadOnly
    /\ Cardinality(sent) = 1
    /\ \E i \in Insts : i \notin sent /\ i \in ClusterRW /\ i \in RWSet

\* ---------------------------------------------------------------------
\* Responses nobody waits for, the flush before parking, and the reads of
\* the socket pointer

\* the reader holds a decoded response whose id is not in the registry
UnexpectedResponse == pc["reader"] = "r_deliver" /\ requests[rresp] = 0

\* C34: a response whose request id is not in the registry is dropped:
\* the step leaves the registry, every future, the stored socket and what
\* went over it unchanged, and the reader is back at the top of its loop,
\* about to read the next frame.
C34_UnexpectedIdDiscarded ==
    [][ (UnexpectedResponse /\ pc'["reader"] # "r_deliver") =>
           /\ requests' = requests
           /\ futVars' = futVars
           /\ connVars' = connVars
           /\ sockVars' = sockVars
           /\ pc'["reader"] = "r_top"
      ]_vars

\* the reader holds a response for a request that a tear-down of the
\* writer already failed, while another request is registered
C34_Witness ==
    /\ UnexpectedResponse
    /\ InRegistry(requests) # {}
    /\ \E f \in Futs : futId[f] = rresp /\ futState[f] = "err"

\* the writer is parked in the second select (214-218)
WriterParked == pc["writer"] = "w_park"

\* C35: the writer never blocks on the empty queue while a frame it
\* wrote sits unflushed in the buffer of the stored socket.
C35_FlushedBeforeParking == WriterParked => buf = <<>>

\* the writer is parked on a stored socket after its frame went out
C35_Witness ==
    /\ WriterParked
    /\ connection # 0
    /\ wire # <<>>
    /\ buf = <<>>

\* p is at a statement that reads conn.r or conn.w: r = conn.r (238),
\* w = conn.w (209, 223)
ReadsPointer(p) == pc[p] \in {"r_top", "w_flush", "w_have"}

\* C36: reader and writer read the socket pointer only while they hold
\* the connection mutex: no such read happens while the other goroutine
\* holds the mutex.
C36_PointerReadUnderMutex ==
    [][ \A p \in Procs :
          (ReadsPointer(p) /\ pc'[p] # pc[p]) => mutex = "free" ]_vars

\* ---------------------------------------------------------------------
\* A frame the reader cannot use

\* read(r) or decodeHeader returned an error and the reader has called
\* closeConnection and continued (244-246, 251-253)
ReaderErrorStep == pc["reader"] = "r_read" /\ pc'["reader"] = "r_top"

\* no future is completed with a response in this step
NoneFulfilled == \A f \in Futs : futState'[f] = "ok" => futState[f] = "ok"

\* every registered future fails with the error of the reader's socket
\* and the registry is emptied
AllPendingFail ==
    /\ \A f \in InRegistry(requests) :
          futState'[f] = "err" /\ futErr'[f] = NetErr(loc["reader"])
    /\ requests' = EmptyRegistry

\* the statement with every registered future failing, whatever is stored:
\* a frame with a wrong first byte, a zero length, a truncated body or a
\* header that cannot be decoded completes no future, fails every
\* pending future with its error and sends the reader to createConnection.
C33_BrokenFrameFailsAllPending ==
    [][ ReaderErrorStep =>
          (NoneFulfilled /\ AllPendingFail /\ connection' = 0) ]_vars

\* C33: a frame the reader cannot use completes no future and makes the
\* reader call closeConnection with its error: while a socket is stored
\* every registered future fails with that error and the registry is
\* emptied; when the socket was already torn down the call changes
\* nothing and the requests registered since stay pending.  Either way
\* no socket is stored and the reader is at the top of its loop, where it
\* finds no socket and calls createConnection.
C33_BrokenFrameTearsDownStored ==
    [][ ReaderErrorStep =>
          /\ NoneFulfilled
          /\ connection' = 0
          /\ IF connection # 0
               THEN AllPendingFail
               ELSE requests' = requests /\ futVars' = futVars
      ]_vars

\* the reader is at the top of its loop after its error failed a request
\* that was registered and not yet queued: nothing was ever handed to
\* the writer, so the error is the reader's
C33_Witness ==
    /\ pc["reader"] = "r_top"
    /\ connection = 0
    /\ netErrs >= 1
    /\ \A g \in Futs : stage[g] # "ret"
    /\ \E f \in Futs :
          /\ stage[f] = "enq"
          /\ futState[f] = "err"
          /\ futErr[f] = NetErr(dialed)

\* ---------------------------------------------------------------------
\* The request-id counter after it wrapped

\* a request of a caller that is not followed here runs from Submit to
\* its delivery on the stored socket while the writer is parked and the
\* reader waits in read(r): it takes the next id, is registered, queued,
\* written, flushed, answered and removed from the registry, and only the
\* counter keeps a trace of it
OtherRequest ==
    /\ Running
    /\ ~closed
    /\ connection # 0
    /\ mutex = "free"
    /\ requests[nextRequestId(requestId)] = 0
    /\ packets = <<>>
    /\ buf = <<>>
    /\ pc["writer"] = "w_park"
    /\ pc["reader"] = "r_read"
    /\ loc["reader"] = connection
    /\ requestId' = nextRequestId(requestId)
    /\ UNCHANGED <<connVars, mutex, requests, packets, envVars, pc, loc,
                   rresp, wpkt, sockVars, netErrs, closeVars, submitVars,
                   futVars>>

\* the connection is in use and never closed
NextWrap ==
    \/ \E p \in Procs : CreateLock(p)
    \/ \E p \in Procs : DialOk(p)
    \/ \E p \in Procs : DialFail(p)
    \/ \E p \in Procs : ReconnectSleep(p)
    \/ ReaderTop
    \/ \E f \in Futs : ReaderRead(f)
    \/ ReaderReadError
    \/ ReaderDeliver
    \/ WriterTop
    \/ WriterFlushRead
    \/ WriterFlushOk
    \/ WriterFlushError
    \/ WriterParkPacket
    \/ WriterHave
    \/ WriterWriteBuffered
    \/ WriterWriteThrough
    \/ WriterWriteError
    \/ \E f \in Futs : SubmitStart(f)
    \/ \E f \in Futs : SubmitRegister(f)
    \/ \E f \in Futs : SubmitEnqueue(f)
    \/ OtherRequest

SpecWrap == Init /\ [][NextWrap]_vars

\* Submit of f takes its id (nextRequestId)
TakesId(f) == stage[f] = "none" /\ stage'[f] = "reg"

\* Submit of f stores id -> future in the registry
Registers(f) == stage[f] = "reg" /\ stage'[f] = "enq"

\* C32: no request is given an id under which an earlier request is
\* still registered, and registering never overwrites the entry of a
\* pending future.
C32_IdNotReusedWhilePending ==
    [][ \A f \in Futs :
          /\ TakesId(f) => requests[futId'[f]] = 0
          /\ Registers(f) => requests[futId[f]] = 0 ]_vars

\* ---------------------------------------------------------------------
\* After Close

\* Close has returned (66)
CloseReturned == closeCalls >= 1

\* a goroutine is inside conn.dial() (165)
Dialing == \E p \in Procs : pc[p] = "cc_dial"

\* C38: once Close has returned the connection holds no socket and no
\* dial is running, whatever a dial in progress did while Close waited
\* for the mutex.
C38_NoSocketAfterClose == CloseReturned => (connection = 0 /\ ~Dialing)

\* Close has returned after it closed a stored socket and failed a
\* pending request with its error, and a loop has ended
C38_Witness ==
    /\ CloseReturned
    /\ dialed >= 1
    /\ \E f \in Futs : futErr[f] = ErrClientClosed
    /\ \E p \in Procs : pc[p] = "done"

\* ---------------------------------------------------------------------
\* The life of a connection: createConnection with the steps of dial

\* everything the steps of dial inside createConnection do not touch
lifeFrame ==
    UNCHANGED <<requestId, requests, packets, reconnect, user, rresp, wpkt,
                sockVars, netErrs, closeVars, submitVars, futVars, dsock,
                greetingAuth, authSent, codeVars, poolVars, aboveVars>>

\* dial returned an error to createConnection: sleep with the mutex held
\* when opts.Reconnect > 0, otherwise return nil and unlock (166-172)
dialReturnsError(p) ==
    /\ dpc' = "idle"
    /\ IF reconnect > 0
         THEN /\ pc' = [pc EXCEPT ![p] = "cc_sleep"]
              /\ UNCHANGED mutex
         ELSE /\ mutex' = "free"
              /\ pc' = [pc EXCEPT ![p] = "done"]
    /\ UNCHANGED <<connection, dialed, loc>>

\* where dial goes on after connection.Read(greeting) (79-87)
afterGreetingSkipsAuth(ok) == IF ok THEN "store" ELSE "idle"
afterGreeting(ok) == IF ok THEN "auth" ELSE "idle"

\* net.Dial (70-76): a new socket is open, or dial returns the error
CreateDialNet(p, ok) ==
    /\ Running
    /\ pc[p] = "cc_dial"
    /\ dpc = "idle"
    /\ IF ok
         THEN /\ dials < MaxSockets
              /\ dials' = dials + 1
              /\ opened' = opened \cup {dials + 1}
              /\ dpc' = "greeting"
              /\ dialErr' = "none"
              /\ authCode' = -1
              /\ UNCHANGED <<connection, dialed, mutex, pc, loc>>
         ELSE /\ dialErr' = "dial"
              /\ dialReturnsError(p)
              /\ UNCHANGED <<opened, dials, authCode>>
    /\ lifeFrame

\* connection.Read(greeting) (77-85): on an error the socket is closed
\* and dial returns
CreateGreeting(p, ok) ==
    /\ Running
    /\ pc[p] = "cc_dial"
    /\ dpc = "greeting"
    /\ IF afterGreeting(ok) # "idle"
         THEN /\ dpc' = afterGreeting(ok)
              /\ UNCHANGED <<connVars, mutex, pc, loc, dialErr>>
         ELSE /\ opened' = closeSocket(opened, dials)
              /\ dialErr' = "greeting"
              /\ dialReturnsError(p)
    /\ UNCHANGED <<dials, authCode>>
    /\ lifeFrame

\* conn.auth(r, w) returns (88-91): nil for a guest and for a user the
\* server accepts (code 0), an error otherwise; on an error the socket is
\* closed and dial returns
CreateAuth(p, code) ==
    /\ Running
    /\ pc[p] = "cc_dial"
    /\ dpc = "auth"
    /\ user = "" => code = 0
    /\ authCode' = code
    /\ dialErr' = decodeBody(code)
    /\ IF afterAuth(decodeBody(code)) = "store"
         THEN /\ dpc' = "store"
              /\ UNCHANGED <<connVars, mutex, pc, loc>>
         ELSE /\ opened' = closeSocket(opened, dials)
              /\ dialReturnsError(p)
    /\ UNCHANGED dials
    /\ lifeFrame

\* conn.connection = connection, conn.r = r, conn.w = w (93-98); break,
\* return conn.r, conn.w and unlock (167, 174)
CreateStore(p) ==
    /\ Running
    /\ pc[p] = "cc_dial"
    /\ dpc = "store"
    /\ connection' = dials
    /\ dialed' = dialed + 1
    /\ loc' = [loc EXCEPT ![p] = dials]
    /\ mutex' = "free"
    /\ pc' = [pc EXCEPT ![p] = afterCreate(p)]
    /\ dpc' = "idle"
    /\ UNCHANGED <<opened, dials, authCode, dialErr>>
    /\ lifeFrame

\* one caller is enough to make the writer dial; with a single frame the
\* buffer is empty whenever the writer writes, so write never has to
\* make room in it
LifeFuts == {1}

NextLife ==
    \/ \E p \in Procs : CreateLock(p)
    \/ \E p \in Procs, ok \in BOOLEAN : CreateDialNet(p, ok)
    \/ \E p \in Procs, ok \in BOOLEAN : CreateGreeting(p, ok)
    \/ \E p \in Procs, code \in AuthCodes : CreateAuth(p, code)
    \/ \E p \in Procs : CreateStore(p)
    \/ \E p \in Procs : ReconnectSleep(p)
    \/ ReaderTop
    \/ \E f \in LifeFuts : ReaderRead(f)
    \/ ReaderReadError
    \/ ReaderDeliver
    \/ WriterTop
    \/ WriterFlushRead
    \/ WriterFlushOk
    \/ WriterFlushError
    \/ WriterParkPacket
    \/ WriterParkControl
    \/ WriterHave
    \/ WriterWriteBuffered
    \/ WriterWriteError
    \/ CloseStart
    \/ CloseControl
    \/ CloseFinish
    \/ \E f \in LifeFuts : SubmitStart(f)
    \/ \E f \in LifeFuts : SubmitRegister(f)
    \/ \E f \in LifeFuts : SubmitEnqueue(f)

SpecLife == InitDial /\ [][NextLife]_vars

\* a goroutine is inside dial, at net.Dial or at the greeting
InDial == \E p \in Procs : pc[p] = "cc_dial" /\ dpc \in {"idle", "greeting"}

\* a goroutine is inside dial, in conn.auth or past it
InAuth == \E p \in Procs : pc[p] = "cc_dial" /\ dpc \in {"auth", "store"}

\* a dial was tried before
Attempted == dials > 0 \/ dialErr # "none"

\* the state of the connection; Close has done its work when it returns
LifeState ==
    IF CloseReturned THEN "Closed"
    ELSE IF connection # 0 THEN "Ready"
    ELSE IF InAuth THEN "Authenticating"
    ELSE IF InDial THEN "Dialing"
    ELSE IF Attempted THEN "Disconnected"
    ELSE "Init"

LifeStates ==
    {"Init", "Dialing", "Authenticating", "Ready", "Disconnected", "Closed"}

\* the changes of state: the cycle, the two ways a dial fails, and Close
LifeEdges ==
    {<<"Init", "Dialing">>, <<"Dialing", "Authenticating">>,
     <<"Authenticating", "Ready">>, <<"Ready", "Disconnected">>,
     <<"Disconnected", "Dialing">>, <<"Dialing", "Disconnected">>,
     <<"Authenticating", "Disconnected">>} \cup
    {<<st, "Closed">> : st \in LifeStates \ {"Closed"}}

\* C31: the connection changes state only along Init -> Dialing ->
\* Authenticating -> Ready -> Disconnected -> Dialing ..., back to
\* Disconnected when a dial or the authentication fails, and to Closed by
\* Close; Ready is entered only from Authenticating, after conn.auth
\* returned nil, with the dialed socket open; a connection whose last dial
\* failed holds no socket; once Closed there is no socket and no dial.
C31_Lifecycle ==
    /\ [][ LifeState' # LifeState =>
             <<LifeState, LifeState'>> \in LifeEdges ]_vars
    /\ [][ (connection = 0 /\ connection' # 0) =>
             /\ LifeState = "Authenticating"
             /\ dialErr = "none"
             /\ authCode = 0
             /\ connection' \in opened' ]_vars
    /\ [](dialErr # "none" => connection = 0)
    /\ [](LifeState = "Closed" => (connection = 0 /\ ~Dialing))

\* after a failed dial, a successful one and a tear-down the connection
\* was closed
C31_Witness ==
    /\ LifeState = "Closed"
    /\ dialed >= 1
    /\ dials > dialed
    /\ opened = {}

\* a goroutine is inside dial with a socket that is open and not stored
\* yet
DialHoldsSocket ==
    \E p \in Procs : pc[p] = "cc_dial" /\ dpc \in {"greeting", "auth", "store"}

\* C37: at most one socket of the connection is open: the stored one or
\* the one a dial is working on, never both and nothing else; and dial
\* runs only with the mutex held and no socket stored.
C37_OneOpenSocket ==
    /\ Cardinality(opened) <= 1
    /\ connection # 0 => opened = {connection}
    /\ (connection = 0 /\ ~DialHoldsSocket) => opened = {}
    /\ DialHoldsSocket => opened = {dials}
    /\ \A p \in Procs :
          pc[p] \in {"cc_dial", "cc_sleep"} => (mutex = p /\ connection = 0)

\* the first socket was stored and torn down, the second one was closed
\* by dial after the greeting or the authentication failed
C37_Witness ==
    /\ dials = 2
    /\ dialed = 1
    /\ connection = 0
    /\ opened = {}
    /\ dialErr \in {"greeting", "auth"}

\* ---------------------------------------------------------------------
\* Close and the two loops under a fair scheduler

\* a step of the reader goroutine that needs neither an answer of the
\* server nor a fault of the network: net.Dial returns, a read fails by
\* itself only on a socket that was closed
ReaderStep ==
    \/ CreateLock("reader")
    \/ \E ok \in BOOLEAN : CreateDialNet("reader", ok)
    \/ CreateStore("reader")
    \/ ReconnectSleep("reader")
    \/ ReaderTop
    \/ (loc["reader"] # connection /\ ReaderReadError)
    \/ ReaderDeliver

\* a step of the writer goroutine that needs neither an answer of the
\* server nor a fault of the network
WriterStep ==
    \/ CreateLock("writer")
    \/ \E ok \in BOOLEAN : CreateDialNet("writer", ok)
    \/ CreateStore("writer")
    \/ ReconnectSleep("writer")
    \/ WriterTop
    \/ WriterFlushRead
    \/ WriterFlushOk
    \/ (loc["writer"] # connection /\ WriterFlushError)
    \/ WriterParkPacket
    \/ WriterParkControl
    \/ WriterHave
    \/ WriterWriteBuffered

\* a step of a Close call that has begun
CloseStep == CloseControl \/ CloseFinish

\* the scheduler runs every goroutine that can take a step; net.Dial,
\* time.Sleep and I/O on a closed socket return; nothing makes the server
\* send its greeting or its answer to AUTH
LifeFairness ==
    /\ WF_vars(ReaderStep)
    /\ WF_vars(WriterStep)
    /\ WF_vars(CloseStep)

SpecLifeFair == SpecLife /\ LifeFairness

\* the first Close call has begun and has not returned
CloseRunning == cpc # "idle" /\ closeCalls = 0

\* a dial has its socket and waits, with no deadline, for the greeting
\* or for the answer to AUTH (79, 142)
WaitsForServer ==
    \E p \in Procs : pc[p] = "cc_dial" /\ dpc \in {"greeting", "auth"}

LoopsEnded == \A p \in Procs : pc[p] = "done"

\* C40: after Close has returned the reader and the writer both return,
\* unless a second Close call has crashed the program.
C40_LoopsEnd == CloseReturned ~> (LoopsEnded \/ ~Running)

\* both loops have returned after Close on a connection that had a socket
\* and a request
C40_Witness ==
    /\ CloseReturned
    /\ LoopsEnded
    /\ Running
    /\ dialed >= 1
    /\ \E f \in LifeFuts : stage[f] = "ret"

\* ---------------------------------------------------------------------
\* Errors on a replaced socket, and the reader of a stored socket

\* p is about to report an I/O error on its local socket, which is no
\* longer the stored one
staleError(p) ==
    /\ pc[p] \in {"r_read", "w_doflush", "w_write"}
    /\ loc[p] # 0
    /\ loc[p] # connection

\* C29: an I/O error detected on a socket that has already been replaced
\* does not tear down its successor: the closeConnection call made for an
\* error on socket S closes no socket established after S and fails no
\* future registered after S was torn down.
C29_StaleErrorSparesSuccessor ==
    [][ \A p \in Procs :
          (staleError(p) /\ pc'[p] # pc[p]) =>
              /\ connection' = connection
              /\ futState' = futState
      ]_vars

\* C30: whenever the connection is not closed and holds an established
\* socket its reader loop has not returned, with opts.Reconnect == 0 as
\* well as with a positive delay.
C30_ReaderAliveWhileConnected ==
    (~closed /\ connection # 0) => pc["reader"] # "done"

====
